---- MODULE Spec2Model ----
(***************************************************************************)
(* Model of ExaMPM::Solver (src/src/ExaMPM_Solver.hpp): the time-stepping  *)
(* loop of solve(), the output / h5fuse launch of outputParticles(), the   *)
(* shutdown reap of the forked h5fuse processes, and timer_stats().        *)
(*                                                                         *)
(* One MPI rank ("participant") is one process running solve().  Double    *)
(* valued quantities (_time, _dt, t_final) are modelled in integer         *)
(* multiples of a time quantum.  A collective MPI call is modelled by an   *)
(* arrival (coll[p] is incremented) and a departure that is enabled once   *)
(* every rank has arrived at the same call.                                *)
(***************************************************************************)
EXTENDS Integers, Naturals, Sequences, FiniteSets, TLC

\* ---------------------------------------------------------------- bounds
NumNodes == 1
RanksPerNode == 2
MaxStep == 2
MaxDt == 2
MaxTFinal == 2
MaxKids == 1
NumProcs == 4
MaxSample == 4

Ranks == 0 .. (NumNodes * RanksPerNode - 1)
Steps == 0 .. MaxStep
DtValues == (0 - 1) .. MaxDt
DeltaTs == {0 - 1, 0, MaxDt}
TFinals == {0, MaxTFinal}
WriteFreqs == {0 - 1, 0, 1, 2}

\* ranks of the communicator passed to timer_stats and their samples
StatRanks == 0 .. (NumProcs - 1)
Samples == 1 .. MaxSample

\* value standing for an int member that was never written
Indeterminate == 0 - 7
\* no timestep negotiated / passed yet
NoDt == 0 - 99

VARIABLES
    t_final,      \* argument of solve
    write_freq,   \* argument of solve
    delta_t,      \* constructor argument, the initial _dt
    env,          \* environment: H5FUSE, LOC, H5FD_SUBFILING set or not
    cfl_dt,       \* stability bound of the run: the controller returns the
                  \* previous dt or a smaller value not below this bound
    reporters,    \* ranks to which writeTimeStep reports subfile names
    h5fuse_exec,  \* ./h5fuse exists and can be executed
    pc,           \* the blocking call each rank is in
    step,         \* Solver::_step
    time,         \* Solver::_time
    dt,           \* Solver::_dt
    nfork,        \* ExaMPM::nfork, one copy per process
    shmrank,      \* Solver::shmrank
    status,       \* local "int status" of the reap loop
    reap_i,       \* loop variable i of the reap loop
    coll,         \* number of collective calls each rank has entered
    kids,         \* child processes of each rank that are not yet waited for
    negotiated,   \* result of the collective timeStepControl per iteration
    jobAbort,     \* MPI_Abort( MPI_COMM_WORLD ) has been called
    \* history variables
    emitted,      \* writeTimeStep calls per rank and step index
    forks,        \* fork() calls per rank and step index
    integ_dt,     \* dt passed to TimeIntegrator::step in the current iteration
    integ_calls,  \* number of TimeIntegrator::step calls per rank
    created,      \* children really created per rank
    waits,        \* waitpid calls per rank
    failed,       \* some child ended with a non-zero code or by a signal
    childInSolver, \* some child returned from execvp into the solver code
    clog,         \* collective calls each rank has entered, in order
    \* one call of timer_stats on every rank of a communicator
    destrank,     \* argument destrank
    timer,        \* argument timer of each rank
    stats,        \* the record *stats of each rank
    rtimers,      \* receive buffer of MPI_Gather on destrank
    sent,         \* ranks whose sample has been handed to MPI_Gather
    spc,          \* position of each rank in timer_stats
    si            \* loop variable i on destrank

cfg == << t_final, write_freq, delta_t, cfl_dt, env, reporters, h5fuse_exec >>
hist == << emitted, forks, integ_dt, integ_calls, created, waits >>
svars == << pc, step, time, dt, nfork, shmrank, status, reap_i, coll,
            kids, negotiated, jobAbort, hist, failed, childInSolver, clog >>
tvars == << destrank, timer, stats, rtimers, sent, spc, si >>
vars == << cfg, svars, tvars >>

\* ------------------------------------------------------------- helpers
Abs(a) == IF a < 0 THEN 0 - a ELSE a

\* C++ operator % on int (truncating division); b # 0
CMod(a, b) == IF a >= 0 THEN a % Abs(b) ELSE 0 - ((0 - a) % Abs(b))

\* variant of StepModIsZero: the test succeeds at every step
StepModIsZero_always(s, wf) == {"true"}

\* outcomes of "0 == _step % write_freq": the value, or, for write_freq = 0
\* (undefined behaviour), what the integer division instruction does: a
\* trap (SIGFPE), or a quotient 0, which leaves _step as the remainder
StepModIsZero(s, wf) ==
    IF wf = 0 THEN {"trap", IF s = 0 THEN "true" ELSE "false"}
    ELSE IF CMod(s, wf) = 0 THEN {"true"} ELSE {"false"}

\* MPI_Comm_split_type( MPI_COMM_WORLD, MPI_COMM_TYPE_SHARED, 0, ... ):
\* one communicator per node, ranks ordered by world rank
NodeOf(p) == p \div RanksPerNode
ShmRankOf(p) == p % RanksPerNode

\* a collective call entered with _step = s
Op(o, s) == [op |-> o, step |-> s]

\* variant of Passed: a collective call returns without waiting
Passed_always(p) == TRUE

\* every rank has entered the collective call that rank p is in
Passed(p) == \A q \in Ranks : coll[q] >= coll[p]

\* h5_config as set from the environment in outputParticles
h5fuse_info == env.H5FUSE
h5fuse_local == env.H5FUSE /\ env.LOC
subfiling == env.H5FD_SUBFILING

\* results the stability controller can return for a previous dt
timeStepControl(prev) ==
    { d \in DtValues : d <= prev /\ (d >= cfl_dt \/ d = prev) }

RemoveAt(s, k) == SubSeq(s, 1, k - 1) \o SubSeq(s, k + 1, Len(s))

Running(p) == pc[p] \notin {"done", "aborted", "crashed"}

\* ---------------------------------------------------------------- Init
\* State after construction, before solve() is called: the constructor sets
\* _dt, _time, _step; shmrank is not initialised; nfork is a
\* zero-initialised namespace-scope int.
InitWith(tfs, wfs, dts, cfls, envs, reps, execs) ==
    /\ t_final \in tfs
    /\ write_freq \in wfs
    /\ delta_t \in dts
    /\ cfl_dt \in cfls
    /\ env \in envs
    /\ reporters \in reps
    /\ h5fuse_exec \in execs
    /\ pc = [p \in Ranks |-> "start"]
    /\ step = [p \in Ranks |-> 0]
    /\ time = [p \in Ranks |-> 0]
    /\ dt = [p \in Ranks |-> delta_t]
    /\ nfork = [p \in Ranks |-> 0]
    /\ shmrank = [p \in Ranks |-> Indeterminate]
    /\ status = [p \in Ranks |-> "indeterminate"]
    /\ reap_i = [p \in Ranks |-> 0]
    /\ coll = [p \in Ranks |-> 0]
    /\ kids = [p \in Ranks |-> << >>]
    /\ negotiated = [s \in Steps |-> NoDt]
    /\ jobAbort = FALSE
    /\ emitted = [p \in Ranks |-> [s \in Steps |-> 0]]
    /\ forks = [p \in Ranks |-> [s \in Steps |-> 0]]
    /\ integ_dt = [p \in Ranks |-> NoDt]
    /\ integ_calls = [p \in Ranks |-> 0]
    /\ created = [p \in Ranks |-> 0]
    /\ waits = [p \in Ranks |-> 0]
    /\ failed = FALSE
    /\ childInSolver = FALSE
    /\ clog = [p \in Ranks |-> << >>]

\* ---------------------------------------------------------- solve: loop
\* variant of LoopCond: the loop stops one quantum early
LoopCond_early(t, tf) == t < tf - 1

\* while ( _time < t_final )
LoopCond(t, tf) == t < tf

\* "if ( shmrank == 0 )" after the loop; shmrank may never have been set
ReapGuard(r) == IF r = Indeterminate THEN BOOLEAN ELSE {r = 0}

\* The while test with _time = t, _step = s, shmrank = r; c and l are coll
\* and clog as left by the code before the test.  True: rank 0
\* evaluates "0 == _step % write_freq" for the progress line and the rank
\* enters the collective timeStepControl.  False: the rank leaves the loop
\* and either starts the reap loop or returns.  "capped" stops the
\* exploration of a run at MaxStep iterations.
LoopTest(p, t, s, r, c, l) ==
    IF ~LoopCond(t, t_final)
    THEN /\ \E z \in ReapGuard(r) :
               pc' = [pc EXCEPT ![p] = IF z THEN "reap" ELSE "done"]
         /\ coll' = c
         /\ clog' = l
    ELSE IF s >= MaxStep
    THEN /\ pc' = [pc EXCEPT ![p] = "capped"]
         /\ coll' = c
         /\ clog' = l
    ELSE \E o \in (IF p = 0 THEN StepModIsZero(s, write_freq)
                            ELSE {"false"}) :
            IF o = "trap"
            THEN /\ pc' = [pc EXCEPT ![p] = "crashed"]
                 /\ coll' = c
                 /\ clog' = l
            ELSE /\ pc' = [pc EXCEPT ![p] = "negotiating"]
                 /\ coll' = [c EXCEPT ![p] = @ + 1]
                 /\ clog' = [l EXCEPT ![p] = Append(@, Op("negotiate", s))]

\* outputParticles() up to the call of writeTimeStep( h5_config,
\* "particles", comm, _step, _time, ... ): the rank enters the collective
\* write of particles_<s>.h5
EnterOutput(p, s) ==
    /\ emitted' = [emitted EXCEPT ![p][s] = @ + 1]
    /\ coll' = [coll EXCEPT ![p] = @ + 1]
    /\ clog' = [clog EXCEPT ![p] = Append(@, Op("write", s))]
    /\ pc' = [pc EXCEPT ![p] = "writing"]

\* solve(): "Output initial state."
SolveEntry(p) ==
    /\ pc[p] = "start"
    /\ EnterOutput(p, step[p])
    /\ UNCHANGED << cfg, tvars, step, time, dt, nfork, shmrank, status, reap_i,
                    kids, negotiated, jobAbort, forks,
                    integ_dt, integ_calls, created, waits, failed,
                    childInSolver >>

\* _dt = timeStepControl( comm, ..., _dt ) returns the collectively agreed
\* timestep; TimeIntegrator::step( ..., _dt, ... ); the rank enters
\* _pm->communicateParticles
TimeStep(p) ==
    /\ pc[p] = "negotiating"
    /\ Passed(p)
    /\ \E d \in (IF negotiated[step[p]] = NoDt
                 THEN timeStepControl(dt[p])
                 ELSE {negotiated[step[p]]}) :
          /\ negotiated' = [negotiated EXCEPT ![step[p]] = d]
          /\ dt' = [dt EXCEPT ![p] = d]
          /\ integ_dt' = [integ_dt EXCEPT ![p] = d]
    /\ integ_calls' = [integ_calls EXCEPT ![p] = @ + 1]
    /\ coll' = [coll EXCEPT ![p] = @ + 1]
    /\ clog' = [clog EXCEPT ![p] = Append(@, Op("halo", step[p]))]
    /\ pc' = [pc EXCEPT ![p] = "halo"]
    /\ UNCHANGED << cfg, tvars, step, time, nfork, shmrank, status, reap_i,
                    kids, jobAbort, emitted, forks, created,
                    waits, failed, childInSolver >>

\* variant of NextStep: _step is not incremented
NextStep_same(s) == s

\* _step++
NextStep(s) == s + 1

\* communicateParticles returns; _time += _dt; _step++;
\* if ( 0 == _step % write_freq ) outputParticles(); then the while test
Advance(p) ==
    /\ pc[p] = "halo"
    /\ Passed(p)
    /\ time' = [time EXCEPT ![p] = @ + dt[p]]
    /\ step' = [step EXCEPT ![p] = NextStep(@)]
    /\ \E o \in StepModIsZero(NextStep(step[p]), write_freq) :
          CASE o = "trap" -> /\ pc' = [pc EXCEPT ![p] = "crashed"]
                             /\ UNCHANGED << coll, clog, emitted >>
            [] o = "true" -> EnterOutput(p, NextStep(step[p]))
            [] OTHER -> /\ LoopTest(p, time[p] + dt[p], NextStep(step[p]),
                                    shmrank[p], coll, clog)
                        /\ UNCHANGED emitted
    /\ UNCHANGED << cfg, tvars, dt, nfork, shmrank, status, reap_i, kids, negotiated,
                    jobAbort, forks, integ_dt, integ_calls, created, waits,
                    failed, childInSolver >>

\* ------------------------------------------------------ outputParticles
\* h5_config.subfilenames is non-empty when writeTimeStep returns: only
\* with subfiling and h5fuse_info set, on the ranks the backend reports to
subfilenames(p) == p \in reporters /\ subfiling /\ h5fuse_info

\* destrank of timer_stats( t2 - t1, MPI_COMM_WORLD, 0, &io_stats )
Root == 0

\* the collective writeTimeStep has returned on rank p
WriteReturned(p) == pc[p] = "writing" /\ Passed(p)

\* timer_stats on the root: it blocks in MPI_Gather until every rank has
\* sent its sample
TimerStats(p) ==
    /\ p = Root
    /\ WriteReturned(p)
    /\ coll' = [coll EXCEPT ![p] = @ + 1]
    /\ clog' = [clog EXCEPT ![p] = Append(@, Op("gather", step[p]))]
    /\ pc' = [pc EXCEPT ![p] = "stats"]
    /\ UNCHANGED << cfg, tvars, step, time, dt, nfork, shmrank, status, reap_i,
                    kids, negotiated, jobAbort, hist, failed,
                    childInSolver >>

\* timer_stats has returned on rank p: on the other ranks MPI_Gather only
\* sends and does not block
StatsDone(p) == IF p = Root THEN pc[p] = "stats" /\ Passed(p)
                            ELSE WriteReturned(p)

\* coll after timer_stats
CollSent(p) == IF p = Root THEN coll ELSE [coll EXCEPT ![p] = @ + 1]

\* clog after timer_stats
LogSent(p) ==
    IF p = Root THEN clog
    ELSE [clog EXCEPT ![p] = Append(@, Op("gather", step[p]))]

\* pid = fork(); nfork++; in the child ( pid == 0 ) execvp( "./h5fuse" ).
\* r = "fail": fork returned -1, no child; "h5fuse": the child became
\* h5fuse; "solver": execvp failed (./h5fuse cannot be executed) and
\* returned, the child goes on in the solver code as a copy of its parent.
\* A rank with MaxKids children gets no further one (fork fails with
\* EAGAIN).
ForkResults == {"fail", "h5fuse", "solver"}

Fork(p, r) ==
    /\ r # "fail" => Len(kids[p]) < MaxKids
    /\ r = "h5fuse" => h5fuse_exec
    /\ r = "solver" => ~h5fuse_exec
    /\ nfork' = [nfork EXCEPT ![p] = @ + 1]
    /\ forks' = [forks EXCEPT ![p][step[p]] = @ + 1]
    /\ kids' = IF r = "fail" THEN kids
               ELSE [kids EXCEPT ![p] =
                        Append(@, [step |-> step[p], st |-> "running"])]
    /\ created' = [created EXCEPT ![p] = IF r = "fail" THEN @ ELSE @ + 1]
    /\ childInSolver' = (childInSolver \/ r = "solver")

NoFork == UNCHANGED << nfork, forks, kids, created, childInSolver >>

\* H5FUSE not set, or no subfiling: nothing is launched
NoFuse(p) ==
    /\ StatsDone(p)
    /\ ~(env.H5FUSE /\ subfiling)
    /\ LoopTest(p, time[p], step[p], shmrank[p], CollSent(p), LogSent(p))
    /\ UNCHANGED << cfg, tvars, step, time, dt, nfork, shmrank, status, reap_i,
                    kids, negotiated, jobAbort, hist, failed,
                    childInSolver >>

\* variant of GlobalLaunches: every rank forks
GlobalLaunches_always(nonEmpty) == TRUE

\* "if ( !h5_config.subfilenames.empty() )" of the global-fuse branch
GlobalLaunches(nonEmpty) == nonEmpty

\* !h5fuse_local: a rank with a non-empty subfilenames forks h5fuse -l
FuseGlobal(p) ==
    /\ StatsDone(p)
    /\ env.H5FUSE /\ subfiling /\ ~h5fuse_local
    /\ IF GlobalLaunches(subfilenames(p))
       THEN \E r \in ForkResults : Fork(p, r)
       ELSE NoFork
    /\ LoopTest(p, time[p], step[p], shmrank[p], CollSent(p), LogSent(p))
    /\ UNCHANGED << cfg, tvars, step, time, dt, shmrank, status, reap_i,
                    negotiated, jobAbort, emitted, integ_dt,
                    integ_calls, waits, failed >>

\* h5fuse_local: the rank enters MPI_Comm_split_type
CommSplit(p) ==
    /\ StatsDone(p)
    /\ env.H5FUSE /\ subfiling /\ h5fuse_local
    /\ coll' = [CollSent(p) EXCEPT ![p] = @ + 1]
    /\ clog' = [LogSent(p) EXCEPT ![p] = Append(@, Op("split", step[p]))]
    /\ pc' = [pc EXCEPT ![p] = "split"]
    /\ UNCHANGED << cfg, tvars, step, time, dt, nfork, shmrank, status, reap_i,
                    kids, negotiated, jobAbort, hist, failed,
                    childInSolver >>

\* variant of LocalLaunches: every rank of the node forks
LocalLaunches_always(r) == TRUE

\* "if ( shmrank == 0 )" of the local-fuse branch
LocalLaunches(r) == r = 0

\* MPI_Comm_split_type returns; MPI_Comm_rank( shmcomm, &shmrank ); the
\* node's rank 0 forks h5fuse -r; MPI_Comm_free
FuseLocal(p) ==
    /\ pc[p] = "split"
    /\ Passed(p)
    /\ shmrank' = [shmrank EXCEPT ![p] = ShmRankOf(p)]
    /\ IF LocalLaunches(ShmRankOf(p))
       THEN \E r \in ForkResults : Fork(p, r)
       ELSE NoFork
    /\ LoopTest(p, time[p], step[p], ShmRankOf(p), coll, clog)
    /\ UNCHANGED << cfg, tvars, step, time, dt, status, reap_i, negotiated, jobAbort,
                    emitted, integ_dt, integ_calls, waits, failed >>

\* --------------------------------------------------- the forked children
\* a child process ends with exit code 0 ("exit0") or with another exit
\* code or a signal ("bad")
ChildExit(p, k) ==
    /\ k \in 1 .. Len(kids[p])
    /\ kids[p][k].st = "running"
    /\ \E z \in {"exit0", "bad"} :
          /\ kids' = [kids EXCEPT ![p][k].st = z]
          /\ failed' = (failed \/ z = "bad")
    /\ UNCHANGED << cfg, tvars, pc, step, time, dt, nfork, shmrank, status, reap_i,
                    coll, negotiated, jobAbort, hist,
                    childInSolver, clog >>

\* -------------------------------------------------------- shutdown reap
\* the wait statuses waitpid can store for a terminated child
WaitStatus(st) == IF st = "exit0" THEN {"exit0"} ELSE {"exitN", "signaled"}

\* WIFEXITED( status ) && WEXITSTATUS( status ) == 0
StatusOk(s) == s = "exit0"

\* the check of one status: next iteration, or MPI_Abort
CheckStatus(p, s) ==
    /\ status' = [status EXCEPT ![p] = s]
    /\ waits' = [waits EXCEPT ![p] = @ + 1]
    /\ IF StatusOk(s)
       THEN /\ reap_i' = [reap_i EXCEPT ![p] = @ + 1]
            /\ UNCHANGED << pc, jobAbort >>
       ELSE /\ pc' = [pc EXCEPT ![p] = "aborted"]
            /\ jobAbort' = TRUE
            /\ UNCHANGED reap_i

\* for ( i = 0; i < nfork; i++ )
ReapMore(i, n) == i < n

\* waitpid( -1, &status, 0 ) returns a terminated child
WaitChild(p) ==
    /\ pc[p] = "reap"
    /\ ReapMore(reap_i[p], nfork[p])
    /\ \E k \in 1 .. Len(kids[p]) :
          /\ kids[p][k].st # "running"
          /\ kids' = [kids EXCEPT ![p] = RemoveAt(@, k)]
          /\ \E s \in WaitStatus(kids[p][k].st) : CheckStatus(p, s)
    /\ UNCHANGED << cfg, tvars, step, time, dt, nfork, shmrank, coll, negotiated,
                    emitted, forks, integ_dt, integ_calls, created, failed,
                    childInSolver, clog >>

\* waitpid( -1, &status, 0 ) fails with ECHILD: status keeps its old
\* content, which is indeterminate before the first successful wait
WaitNoChild(p) ==
    /\ pc[p] = "reap"
    /\ ReapMore(reap_i[p], nfork[p])
    /\ kids[p] = << >>
    /\ \E s \in (IF status[p] = "indeterminate"
                 THEN {"exit0", "exitN", "signaled"}
                 ELSE {status[p]}) :
          CheckStatus(p, s)
    /\ UNCHANGED << cfg, tvars, step, time, dt, nfork, shmrank, coll, kids,
                    negotiated, emitted, forks, integ_dt, integ_calls,
                    created, failed, childInSolver, clog >>

\* i == nfork: solve returns
ReapDone(p) ==
    /\ pc[p] = "reap"
    /\ ~ReapMore(reap_i[p], nfork[p])
    /\ pc' = [pc EXCEPT ![p] = "done"]
    /\ UNCHANGED << cfg, tvars, step, time, dt, nfork, shmrank, status, reap_i,
                    coll, kids, negotiated, jobAbort, hist,
                    failed, childInSolver, clog >>

\* MPI_Abort( MPI_COMM_WORLD, -1 ): some time after the call the runtime
\* ends, together, the ranks that are still in solve
Killed ==
    /\ jobAbort
    /\ \E p \in Ranks : Running(p)
    /\ pc' = [p \in Ranks |-> IF Running(p) THEN "aborted" ELSE pc[p]]
    /\ UNCHANGED << cfg, tvars, step, time, dt, nfork, shmrank, status, reap_i,
                    coll, kids, negotiated, jobAbort, hist,
                    failed, childInSolver, clog >>

\* ---------------------------------------------------------- timer_stats
\* Doubles are modelled as exact fractions num / den (den > 0); the result
\* of sqrt is kept as the fraction under the root.
Rat(n, d) == [num |-> n, den |-> d]
RatEq(a, b) == a.num * b.den = b.num * a.den
RatAdd(a, b) == IF a.den = b.den THEN Rat(a.num + b.num, a.den)
                ELSE Rat(a.num * b.den + b.num * a.den, a.den * b.den)
RatDivInt(a, n) == Rat(a.num, a.den * n)
\* ( x - m ) * ( x - m ) for a sample x and a fraction m
SqDev(x, m) == Rat((x * m.den - m.num) * (x * m.den - m.num), m.den * m.den)
sqrt(a) == [root_num |-> a.num, root_den |-> a.den]

\* content of *stats before the call
OldStats == [mean |-> Rat(0, 1), min |-> 0, max |-> 0, std |-> Rat(0, 1)]

\* MPI_Comm_size( comm, &nprocs )
nprocs == NumProcs

\* no call of timer_stats is modelled
StatsIdle ==
    /\ destrank = 0
    /\ timer = [p \in StatRanks |-> 1]
    /\ stats = [p \in StatRanks |-> OldStats]
    /\ rtimers = << >>
    /\ sent = {}
    /\ spc = [p \in StatRanks |-> "ret"]
    /\ si = 0

\* every rank of the communicator is about to call timer_stats with its own
\* sample and the same destrank
StatsInputs ==
    /\ destrank \in {0, NumProcs - 1}
    /\ timer \in [StatRanks -> Samples]
    /\ stats = [p \in StatRanks |-> OldStats]
    /\ rtimers = << >>
    /\ sent = {}
    /\ spc = [p \in StatRanks |-> "call"]
    /\ si = 0

\* "if ( rank == destrank )" initialises *stats; the rank hands its sample
\* to MPI_Gather, which returns at once on the ranks other than destrank
StatsCall(p) ==
    /\ spc[p] = "call"
    /\ stats' = IF p = destrank
                THEN [stats EXCEPT ![p] =
                        [mean |-> Rat(0, 1), min |-> timer[p],
                         max |-> timer[p], std |-> Rat(0, 1)]]
                ELSE stats
    /\ sent' = sent \cup {p}
    /\ spc' = [spc EXCEPT ![p] = IF p = destrank THEN "gather" ELSE "ret"]
    /\ UNCHANGED << cfg, svars, destrank, timer, rtimers, si >>

\* MPI_Gather returns on destrank: rtimers holds the samples in rank order
StatsGather(p) ==
    /\ spc[p] = "gather"
    /\ sent = StatRanks
    /\ rtimers' = [i \in 1 .. nprocs |-> timer[i - 1]]
    /\ si' = 0
    /\ spc' = [spc EXCEPT ![p] = "loop1"]
    /\ UNCHANGED << cfg, svars, destrank, timer, stats, sent >>

\* variant of MinUpdate: the minimum is never lowered
MinUpdate_keep(x, m) == m

\* if ( rtimers[i] < stats->min ) stats->min = rtimers[i];
MinUpdate(x, m) == IF x < m THEN x ELSE m

\* if ( rtimers[i] > stats->max ) stats->max = rtimers[i];
MaxUpdate(x, m) == IF x > m THEN x ELSE m

\* one iteration of the first loop; after the last, stats->mean /= nprocs
StatsLoop1(p) ==
    /\ spc[p] = "loop1"
    /\ IF si < nprocs
       THEN /\ stats' = [stats EXCEPT
                  ![p].max = MaxUpdate(rtimers[si + 1], @),
                  ![p].min = MinUpdate(rtimers[si + 1], @),
                  ![p].mean = RatAdd(@, Rat(rtimers[si + 1], 1))]
            /\ si' = si + 1
            /\ UNCHANGED spc
       ELSE /\ stats' = [stats EXCEPT ![p].mean = RatDivInt(@, nprocs)]
            /\ si' = 0
            /\ spc' = [spc EXCEPT ![p] = "loop2"]
    /\ UNCHANGED << cfg, svars, destrank, timer, rtimers, sent >>

\* one iteration of the second loop; after the last,
\* stats->std = sqrt( stats->std / nprocs ) and the rank returns
StatsLoop2(p) ==
    /\ spc[p] = "loop2"
    /\ IF si < nprocs
       THEN /\ stats' = [stats EXCEPT ![p].std =
                  RatAdd(@, SqDev(rtimers[si + 1], stats[p].mean))]
            /\ si' = si + 1
            /\ UNCHANGED spc
       ELSE /\ stats' = [stats EXCEPT ![p].std = sqrt(RatDivInt(@, nprocs))]
            /\ spc' = [spc EXCEPT ![p] = "ret"]
            /\ UNCHANGED si
    /\ UNCHANGED << cfg, svars, destrank, timer, rtimers, sent >>

NextStats ==
    \/ \E p \in StatRanks : StatsCall(p)
    \/ \E p \in StatRanks : StatsGather(p)
    \/ \E p \in StatRanks : StatsLoop1(p)
    \/ \E p \in StatRanks : StatsLoop2(p)

\* ------------------------------------------------------- specifications
Next ==
    \/ \E p \in Ranks : SolveEntry(p)
    \/ \E p \in Ranks : TimeStep(p)
    \/ \E p \in Ranks : Advance(p)
    \/ \E p \in Ranks : TimerStats(p)
    \/ \E p \in Ranks : NoFuse(p)
    \/ \E p \in Ranks : FuseGlobal(p)
    \/ \E p \in Ranks : CommSplit(p)
    \/ \E p \in Ranks : FuseLocal(p)
    \/ \E p \in Ranks : \E k \in 1 .. MaxKids : ChildExit(p, k)
    \/ \E p \in Ranks : WaitChild(p)
    \/ \E p \in Ranks : WaitNoChild(p)
    \/ \E p \in Ranks : ReapDone(p)
    \/ Killed

\* environments without fusion, with global fusion and with local fusion
EnvNone == [H5FUSE |-> FALSE, LOC |-> FALSE, H5FD_SUBFILING |-> FALSE]
EnvNoSubfiling == [H5FUSE |-> TRUE, LOC |-> TRUE, H5FD_SUBFILING |-> FALSE]
EnvGlobal == [H5FUSE |-> TRUE, LOC |-> FALSE, H5FD_SUBFILING |-> TRUE]
EnvLocal == [H5FUSE |-> TRUE, LOC |-> TRUE, H5FD_SUBFILING |-> TRUE]

LastRank == NumNodes * RanksPerNode - 1

\* runs of the time loop: every t_final, write_freq, delta_t and controller
\* result, and a run whose first step passes t_final; no fusion
InitLoop ==
    \/ InitWith(TFinals, WriteFreqs, DeltaTs, {0 - 1}, {EnvNone}, {{}},
                {TRUE})
    \/ InitWith({1}, {1}, {MaxDt}, {0 - 1}, {EnvNone}, {{}}, {TRUE})
    \/ InitWith({0, 1}, {1}, {1}, {1}, {EnvNoSubfiling}, {{0}}, {TRUE})

\* runs with fusion: one or two output events at a fixed timestep, the
\* subfile names reported to no rank, to rank 0 or to the first and the
\* last rank, with and without an executable ./h5fuse
InitFuse ==
    \/ InitWith({0, 1}, {1}, {1}, {1}, {EnvGlobal}, {{}, {0}}, BOOLEAN)
    \/ InitWith({0}, {1}, {1}, {1}, {EnvGlobal}, {{0, LastRank}}, {TRUE})
    \/ InitWith({1}, {1}, {1}, {1}, {EnvLocal}, {{0}}, {TRUE})
    \/ InitWith({0}, {1}, {1}, {1}, {EnvLocal}, {{}}, BOOLEAN)

Init == (InitLoop \/ InitFuse) /\ StatsIdle

Spec == Init /\ [][Next]_vars

\* one call of timer_stats on every rank of a communicator, the solver at
\* rest
InitStats ==
    InitWith({0}, {1}, {1}, {1}, {EnvNone}, {{}}, {TRUE}) /\ StatsInputs

SpecStats == InitStats /\ [][NextStats]_vars

\* ================================================================ claims
Nodes == 0 .. (NumNodes - 1)
RanksOf(g) == { p \in Ranks : NodeOf(p) = g }

\* rank p has left the fusion part of the output event of step s
AfterFuse(p, s) ==
    /\ emitted[p][s] > 0
    /\ \/ step[p] > s
       \/ pc[p] \in {"negotiating", "halo", "capped", "reap", "done"}

ForksAt(s) == { p \in Ranks : forks[p][s] > 0 }

\* C1: solve returns normally on a rank only after every child that rank
\* forked has been waited for (and its status checked): a rank that has
\* returned has no child left that it did not wait for.
C1_ReturnOnlyAfterReap ==
    \A p \in Ranks : pc[p] = "done" => kids[p] = << >>

\* C2: once a forked fusion process has ended with a non-zero code or
\* abnormally, no rank returns normally from solve any more.
C2_FailureAbortsJob ==
    [][failed => \A p \in Ranks : (pc'[p] = "done" => pc[p] = "done")]_vars

\* C3: with write_freq > 0, a rank that has entered solve has written
\* exactly once for step 0 and for every step s it reached with
\* s mod write_freq = 0, and never for another step.
C3_OutputSteps ==
    write_freq > 0 =>
       \A p \in Ranks : \A s \in Steps :
          emitted[p][s] =
             IF pc[p] # "start" /\ s <= step[p]
                /\ (s = 0 \/ s % write_freq = 0)
             THEN 1 ELSE 0

C3_Witness ==
    /\ write_freq = 2
    /\ \E p \in Ranks :
          /\ step[p] = 2
          /\ emitted[p][0] = 1 /\ emitted[p][1] = 0 /\ emitted[p][2] = 1

\* C4: the dt with which TimeIntegrator::step is invoked is > 0 and at most
\* the delta_t given at construction.
C4_IntegratorDt ==
    \A p \in Ranks :
       integ_dt[p] # NoDt => (integ_dt[p] > 0 /\ integ_dt[p] <= delta_t)

\* C5: with write_freq <= 0 the loop body never runs: no rank negotiates a
\* timestep, integrates or advances.
C5_BadIntervalRejected ==
    write_freq <= 0 =>
       \A p \in Ranks :
          /\ integ_calls[p] = 0
          /\ step[p] = 0
          /\ pc[p] \notin {"negotiating", "halo"}

\* C6: in the reap loop the iterations still to run (nfork - i) equal the
\* children the rank still has to wait for, and a rank that has returned
\* has made as many waitpid calls as it created children.
C6_CounterMatchesChildren ==
    \A p \in Ranks :
       /\ pc[p] = "reap" => nfork[p] - reap_i[p] = Len(kids[p])
       /\ pc[p] = "done" => waits[p] = created[p]

\* C7: after solve has returned normally on a rank, that rank's counter
\* nfork is 0 again.
C7_CounterDrained ==
    \A p \in Ranks : pc[p] = "done" => nfork[p] = 0

C10_StepAndTime ==
    [][\A p \in Ranks :
          (step'[p] # step[p] \/ time'[p] # time[p]) =>
             /\ step'[p] = step[p] + 1
             /\ time'[p] = time[p] + integ_dt[p]
             /\ time'[p] >= time[p]]_vars

\* C11: a rank that has left the time loop has _time >= t_final, and if it
\* ran at least one iteration, _time minus the dt of its last iteration is
\* below t_final (the overshoot is less than one dt).
C11_LoopExit ==
    \A p \in Ranks :
       pc[p] \in {"reap", "done"} =>
          /\ time[p] >= t_final
          /\ integ_calls[p] > 0 => time[p] - integ_dt[p] < t_final

C11_Witness ==
    \E p \in Ranks :
       /\ pc[p] \in {"reap", "done"}
       /\ integ_calls[p] > 0
       /\ time[p] > t_final

\* sum of f over the finite set S
SumOver(f, S) ==
    LET RECURSIVE Sum(_)
        Sum(T) == IF T = {} THEN 0
                  ELSE LET x == CHOOSE y \in T : TRUE
                       IN f[x] + Sum(T \ {x})
    IN Sum(S)

SampleSum == SumOver(timer, StatRanks)

\* NumProcs^2 times the sum of squared deviations from the mean
ScaledSqDev ==
    SumOver([p \in StatRanks |->
               (NumProcs * timer[p] - SampleSum)
                  * (NumProcs * timer[p] - SampleSum)], StatRanks)

\* C12: when timer_stats has returned on the collector, its record holds
\* min = the least sample, max = the greatest sample, mean = sum of the
\* samples / number of ranks and std = sqrt( sum of squared deviations from
\* the mean / number of ranks ) (samples 1,2,3,4 give 1, 4, 5/2 and
\* sqrt( 5/4 )); the record of every other rank is never changed.
C12_TimerStats ==
    /\ \A p \in StatRanks \ {destrank} : stats[p] = OldStats
    /\ spc[destrank] = "ret" /\ sent = StatRanks =>
          LET s == stats[destrank] IN
          /\ s.min \in {timer[p] : p \in StatRanks}
          /\ \A p \in StatRanks : s.min <= timer[p]
          /\ s.max \in {timer[p] : p \in StatRanks}
          /\ \A p \in StatRanks : s.max >= timer[p]
          /\ RatEq(s.mean, Rat(SampleSum, NumProcs))
          /\ DOMAIN s.std = {"root_num", "root_den"}
          /\ RatEq(Rat(s.std.root_num, s.std.root_den),
                   Rat(ScaledSqDev, NumProcs * NumProcs * NumProcs))
          /\ timer = [p \in 0 .. 3 |-> p + 1] =>
                /\ s.min = 1 /\ s.max = 4
                /\ RatEq(s.mean, Rat(5, 2))
                /\ RatEq(Rat(s.std.root_num, s.std.root_den), Rat(5, 4))

C12_Witness ==
    /\ \A p \in StatRanks : spc[p] = "ret"
    /\ sent = StatRanks
    /\ destrank # 0
    /\ stats[destrank].min < timer[destrank]
    /\ timer[destrank] < stats[destrank].max
    /\ timer[0] # timer[1]

\* rank q has left the time loop or has ended
Left(q) == pc[q] \in {"reap", "done", "crashed"}

\* C13: all ranks enter the same collective calls in the same order with
\* the same _step at each one, and no rank enters a collective call that
\* another rank, having left the loop or ended, never enters.
C13_SameCollectives ==
    \A p, q \in Ranks :
       /\ \A i \in 1 .. Len(clog[p]) :
             i <= Len(clog[q]) => clog[p][i] = clog[q][i]
       /\ Left(q) => Len(clog[p]) <= Len(clog[q])

\* positions of the communicateParticles calls in the log of rank p
HaloIdx(p) == { i \in 1 .. Len(clog[p]) : clog[p][i].op = "halo" }

\* C14: on every rank each iteration enters communicateParticles exactly
\* once, directly after the negotiation and the TimeIntegrator step of the
\* same iteration; the output of an iteration comes directly after its
\* halo exchange, and the negotiation of the next iteration comes after it.
C14_HaloOrder ==
    \A p \in Ranks :
       /\ Cardinality(HaloIdx(p)) = integ_calls[p]
       /\ Cardinality({ clog[p][i].step : i \in HaloIdx(p) }) = integ_calls[p]
       /\ \A i \in 1 .. Len(clog[p]) :
             LET e == clog[p][i] IN
             /\ e.op = "halo" =>
                   i > 1 /\ clog[p][i - 1] = Op("negotiate", e.step)
             /\ (e.op = "negotiate" /\ i < Len(clog[p])) =>
                   clog[p][i + 1] = Op("halo", e.step)
             /\ (e.op = "write" /\ i > 1) =>
                   clog[p][i - 1] = Op("halo", e.step - 1)
             /\ (e.op = "negotiate" /\ e.step > 0) =>
                   \E j \in 1 .. (i - 1) : clog[p][j] = Op("halo", e.step - 1)

C14_Witness ==
    \E p \in Ranks :
       /\ integ_calls[p] = 2
       /\ emitted[p][1] = 1
       /\ pc[p] = "halo"

\* C15: a rank calls fork (and increments nfork) at an output event only if
\* H5FUSE is set, subfiling is set and its h5_config.subfilenames is
\* non-empty; in every other case it forks nothing and nfork stays as it is.
C15_LaunchOnlyWithManifest ==
    \A p \in Ranks :
       /\ \A s \in Steps :
             forks[p][s] > 0 => (env.H5FUSE /\ subfiling /\ subfilenames(p))
       /\ nfork[p] > 0 => (env.H5FUSE /\ subfiling /\ subfilenames(p))

\* C16: a rank calls waitpid, looks at a child's status or aborts the job
\* for a failed child only in the reap loop after its time loop; a rank is
\* stopped inside its time loop only by a job abort raised in a reap loop,
\* and when the job is aborted every rank has run the TimeIntegrator step
\* of every iteration of the run.
C16_ReapOnlyAfterLoop ==
    [][/\ \A p \in Ranks :
             /\ (waits'[p] # waits[p] \/ status'[p] # status[p])
                   => pc[p] = "reap"
             /\ (pc'[p] = "aborted" /\ pc[p] \notin {"reap", "aborted"})
                   => jobAbort
       /\ (jobAbort' /\ ~jobAbort) =>
             \E p \in Ranks : pc[p] = "reap" /\ pc'[p] = "aborted"
       /\ jobAbort' =>
             \A p, q \in Ranks : integ_calls'[p] = integ_calls'[q]]_vars

C16_Witness ==
    \E p \in Ranks :
       /\ pc[p] = "halo"
       /\ Len(kids[p]) = 1
       /\ kids[p][1] = [step |-> 0, st |-> "bad"]
       /\ ~jobAbort

\* the fusion processes that are still running, as << rank, index >>
Fusers ==
    { f \in Ranks \X (1 .. MaxKids) :
         f[2] <= Len(kids[f[1]]) /\ kids[f[1]][f[2]].st = "running" }

\* step index in the name particles_<step>.h5 a fusion process was given
Target(f) == kids[f[1]][f[2]].step

C18_TwoEndings ==
    \A p \in Ranks :
       /\ pc[p] # "crashed"
       /\ pc[p] = "done" =>
             /\ time[p] >= t_final
             /\ \A k \in 1 .. Len(kids[p]) : kids[p][k].st # "running"

\* C19: no forked child ever runs solver code: after fork the child either
\* becomes h5fuse or ends; also when execvp fails it does not return from
\* outputParticles into the time loop.
C19_ChildNeverInSolver == ~childInSolver

\* ranks whose subfiles a fusion process launched by rank p merges
Covered(p) == IF h5fuse_local THEN RanksOf(NodeOf(p)) ELSE Ranks

\* C20: when a rank forks the fusion process for step s, every rank that
\* process covers has entered writeTimeStep for step s and that call has
\* returned on it.
C20_LaunchAfterWrite ==
    [][\A p \in Ranks : \A s \in Steps :
          forks'[p][s] > forks[p][s] =>
             \A q \in Covered(p) \ {p} :
                /\ emitted[q][s] > 0
                /\ ~(pc[q] = "writing" /\ step[q] = s)]_vars

====
